---- MODULE Spec2Model ----
(***************************************************************************)
(* A model of sujaltv/ddp:                                                 *)
(*   - ddpwrapper/__parallelit.py : AutoExecutor, the launcher and the     *)
(*     per-worker bootstrap dist_init (join, seed, barriers, binding,      *)
(*     trainer, teardown);                                                 *)
(*   - ddpw/job.py : Job, the lifecycle call and save_state/restore_state. *)
(* The two packages share no state; each has a specification of its own.   *)
(***************************************************************************)
EXTENDS Integers, Sequences, FiniteSets, TLC

\* ------------------------------------------------------------- bounds
\* Largest world size a caller passes to update_parameters.
MaxProcs == 3

\* AutoExecutor.seed, the literal every worker seeds with.
Seed == 1640

Procs == 0 .. (MaxProcs - 1)

\* ----------------------------------------------------- executor state
VARIABLES
  nprocs,          \* AutoExecutor.nprocs
  launcher,        \* the launcher process: idle, assert_failed, waiting, ...
  args,            \* the argument bundle handed to submit
  pc,              \* each worker's position in dist_init
  pg,              \* each worker's process-group state
  joined,          \* ranks registered at the rendezvous
  arrived,         \* arrived[k]: ranks that entered the k-th barrier
  seeded,          \* the seed each worker gave its random sources
  device,          \* the device each worker selected (gpu)
  ddp_ids,         \* the device id each worker gave DistributedDataParallel
  logger,          \* whether the worker holds a Logger
  trainerCalled,   \* workers that invoked self.trainer
  trainerReturned, \* workers whose trainer call returned
  failedAt,        \* where a worker raised or died
  phases           \* the phases of dist_init each worker has gone through

execVars == <<nprocs, launcher, args, pc, pg, joined, arrived, seeded, device,
              ddp_ids, logger, trainerCalled, trainerReturned, failedAt,
              phases>>

\* ----------------------------------------------------------------- job
VARIABLES
  j_config,   \* Job.j_config, a JobConfig
  a_config,   \* Job.a_config: model, optimiser, optimiser_loader, test_set
  impl,       \* the procedures the user's Job subclass overrides
  files,      \* the checkpoint files: path -> stored checkpoint
  calls,      \* what the latest lifecycle call invoked, in order
  outcome,    \* how the latest operation ended: ok or the error raised
  op,         \* the latest operation and its argument
  lastSaved,  \* per epoch, the states exported by its latest save_state
  files0      \* the checkpoint files found when the job was constructed

jobVars == <<j_config, a_config, impl, files, calls, outcome, op, lastSaved, files0>>

vars == <<execVars, jobVars>>

Workers == 0 .. (nprocs - 1)

\* An optional value is a set: empty when absent, else its one value.
NoArgs == [keys |-> {}, local_rank |-> {}]

\* Keys dist_init reads with args[...] while binding (lines 45-51).
BindKeys == {"model", "dataset", "optimiser", "loss_fn", "epochs", "ckpt_every"}

\* Keys read with args[...] anywhere in dist_init.
RequiredKeys == BindKeys \cup {"logdir"}

\* Bundles a caller hands to submit: complete, or with one required key
\* missing; local_rank is optional and, being in the shared bundle, is one
\* value for every worker.
ArgBundles ==
  { [keys |-> RequiredKeys \ m, local_rank |-> lr] :
      m \in {{}} \cup {{k} : k \in RequiredKeys}, lr \in {{}, {0}} }

\* Positions at which a worker process is running.
AlivePcs == {"init", "joining", "seed", "barrier1", "in_barrier1", "bind",
             "barrier2", "in_barrier2", "trainer", "training", "barrier3",
             "in_barrier3", "destroy"}

\* Positions before the trainer is invoked.
PreTrainingPcs == {"init", "joining", "seed", "barrier1", "in_barrier1",
                   "bind", "barrier2", "in_barrier2"}

ExecInit ==
  /\ nprocs = 1
  /\ launcher = "idle"
  /\ args = NoArgs
  /\ pc = [w \in Procs |-> "none"]
  /\ pg = [w \in Procs |-> "UNINITIALIZED"]
  /\ joined = {}
  /\ arrived = [k \in 1 .. 3 |-> {}]
  /\ seeded = [w \in Procs |-> {}]
  /\ device = [w \in Procs |-> {}]
  /\ ddp_ids = [w \in Procs |-> {}]
  /\ logger = [w \in Procs |-> FALSE]
  /\ trainerCalled = {}
  /\ trainerReturned = {}
  /\ failedAt = [w \in Procs |-> "none"]
  /\ phases = [w \in Procs |-> <<>>]

\* update_parameters: the assertion comes first, so a rejected world size
\* assigns nothing.
UpdateParameters(n) ==
  /\ launcher = "idle"
  /\ IF n > 0
       THEN /\ nprocs' = n
            /\ UNCHANGED launcher
       ELSE /\ launcher' = "assert_failed"
            /\ UNCHANGED nprocs
  /\ UNCHANGED <<args, pc, pg, joined, arrived, seeded, device, ddp_ids,
                 logger, trainerCalled, trainerReturned, failedAt>>
  /\ UNCHANGED phases
  /\ UNCHANGED jobVars

\* submit: mp.spawn starts nprocs processes running dist_init(pid, args).
Submit(a) ==
  /\ launcher = "idle"
  /\ launcher' = "waiting"
  /\ args' = a
  /\ pc' = [w \in Procs |-> IF w < nprocs THEN "init" ELSE "none"]
  /\ UNCHANGED <<nprocs, pg, joined, arrived, seeded, device, ddp_ids,
                 logger, trainerCalled, trainerReturned, failedAt>>
  /\ UNCHANGED phases
  /\ UNCHANGED jobVars

\* dist.init_process_group: the rank registers at the rendezvous ...
JoinRegister(w) ==
  /\ pc[w] = "init"
  /\ joined' = joined \cup {w}
  /\ pc' = [pc EXCEPT ![w] = "joining"]
  /\ UNCHANGED <<nprocs, launcher, args, pg, arrived, seeded, device,
                 ddp_ids, logger, trainerCalled, trainerReturned, failedAt>>
  /\ phases' = [phases EXCEPT ![w] = Append(@, "join")]
  /\ UNCHANGED jobVars

\* ... and returns once world_size ranks have registered.
JoinReturn(w) ==
  /\ pc[w] = "joining"
  /\ joined = Workers
  /\ pg' = [pg EXCEPT ![w] = "JOINED"]
  /\ pc' = [pc EXCEPT ![w] = "seed"]
  /\ UNCHANGED <<nprocs, launcher, args, joined, arrived, seeded, device,
                 ddp_ids, logger, trainerCalled, trainerReturned, failedAt>>
  /\ UNCHANGED phases
  /\ UNCHANGED jobVars

\* Where dist_init goes after seeding: the first barrier (line 39).
AfterSeedSkipsBarrier == "bind"
AfterSeed == "barrier1"

\* The seed worker w gives its random sources: self.seed, the same literal
\* in every worker (lines 34-36).
SeedPlusRank(w) == Seed + w
SeedOf(w) == Seed

\* torch.manual_seed, np.random.seed, torch.cuda.manual_seed_all.
SeedAll(w) ==
  /\ pc[w] = "seed"
  /\ seeded' = [seeded EXCEPT ![w] = {SeedOf(w)}]
  /\ pc' = [pc EXCEPT ![w] = AfterSeed]
  /\ UNCHANGED <<nprocs, launcher, args, pg, joined, arrived, device,
                 ddp_ids, logger, trainerCalled, trainerReturned, failedAt>>
  /\ phases' = [phases EXCEPT ![w] = Append(@, "seed")]
  /\ UNCHANGED jobVars

BarrierPc(k) == IF k = 1 THEN "barrier1" ELSE IF k = 2 THEN "barrier2" ELSE "barrier3"
InBarrierPc(k) == IF k = 1 THEN "in_barrier1" ELSE IF k = 2 THEN "in_barrier2" ELSE "in_barrier3"

\* Where dist_init goes after the trainer returns: the final barrier (line 69).
AfterTrainerSkipsBarrier == "destroy"
AfterTrainer == "barrier3"

\* What follows each barrier in dist_init.
AfterBarrierSkipsBind(k) == IF k = 1 THEN "barrier2" ELSE IF k = 2 THEN "trainer" ELSE "destroy"
AfterBarrier(k) == IF k = 1 THEN "bind" ELSE IF k = 2 THEN "trainer" ELSE "destroy"

\* dist.barrier: the worker enters the k-th barrier ...
BarrierArrive(w, k) ==
  /\ pc[w] = BarrierPc(k)
  /\ pg[w] = "JOINED"
  /\ arrived' = [arrived EXCEPT ![k] = @ \cup {w}]
  /\ pc' = [pc EXCEPT ![w] = InBarrierPc(k)]
  /\ UNCHANGED <<nprocs, launcher, args, pg, joined, seeded, device,
                 ddp_ids, logger, trainerCalled, trainerReturned, failedAt>>
  /\ UNCHANGED phases
  /\ UNCHANGED jobVars

\* ... and leaves it once every rank of the group has entered it.
BarrierPass(w, k) ==
  /\ pc[w] = InBarrierPc(k)
  /\ arrived[k] = Workers
  /\ pc' = [pc EXCEPT ![w] = AfterBarrier(k)]
  /\ UNCHANGED <<nprocs, launcher, args, pg, joined, arrived, seeded, device,
                 ddp_ids, logger, trainerCalled, trainerReturned, failedAt>>
  /\ phases' = [phases EXCEPT ![w] = Append(@, "barrier")]
  /\ UNCHANGED jobVars

\* Where dist_init goes after binding: the second barrier (line 61).
AfterBindSkipsBarrier == "trainer"
AfterBind == "barrier2"

\* gpu = args.get('local_rank', pid)
Gpu(w) == IF args.local_rank # {} THEN CHOOSE g \in args.local_rank : TRUE ELSE w

\* Lines 41-59: select the device, read the bundle (a missing key raises
\* KeyError, after set_device), place and wrap the model, build the sampler
\* and the loader, rebind the optimiser's parameters.
Bind(w) ==
  /\ pc[w] = "bind"
  /\ device' = [device EXCEPT ![w] = {Gpu(w)}]
  /\ IF BindKeys \subseteq args.keys
       THEN /\ ddp_ids' = [ddp_ids EXCEPT ![w] = {w}]
            /\ pc' = [pc EXCEPT ![w] = AfterBind]
            /\ UNCHANGED failedAt
       ELSE /\ pc' = [pc EXCEPT ![w] = "failed"]
            /\ failedAt' = [failedAt EXCEPT ![w] = "bind"]
            /\ UNCHANGED ddp_ids
  /\ UNCHANGED <<nprocs, launcher, args, pg, joined, arrived, seeded,
                 logger, trainerCalled, trainerReturned>>
  /\ phases' = [phases EXCEPT ![w] = Append(@, "bind")]
  /\ UNCHANGED jobVars

\* Lines 64-67: rank 0 builds the Logger from args['logdir'] (KeyError when
\* absent), then every worker calls the trainer.
TrainerCall(w) ==
  /\ pc[w] = "trainer"
  /\ IF w = 0 /\ "logdir" \notin args.keys
       THEN /\ pc' = [pc EXCEPT ![w] = "failed"]
            /\ failedAt' = [failedAt EXCEPT ![w] = "trainer"]
            /\ UNCHANGED <<logger, trainerCalled, phases>>
       ELSE /\ logger' = [logger EXCEPT ![w] = (w = 0)]
            /\ trainerCalled' = trainerCalled \cup {w}
            /\ phases' = [phases EXCEPT ![w] = Append(@, "trainer")]
            /\ pc' = [pc EXCEPT ![w] = "training"]
            /\ UNCHANGED failedAt
  /\ UNCHANGED <<nprocs, launcher, args, pg, joined, arrived, seeded, device,
                 ddp_ids, trainerReturned>>
  /\ UNCHANGED jobVars

\* self.trainer(...) returns normally.
TrainerReturn(w) ==
  /\ pc[w] = "training"
  /\ trainerReturned' = trainerReturned \cup {w}
  /\ pc' = [pc EXCEPT ![w] = AfterTrainer]
  /\ UNCHANGED <<nprocs, launcher, args, pg, joined, arrived, seeded, device,
                 ddp_ids, logger, trainerCalled, failedAt>>
  /\ UNCHANGED phases
  /\ UNCHANGED jobVars

\* dist.destroy_process_group, then dist_init returns and the process exits.
Destroy(w) ==
  /\ pc[w] = "destroy"
  /\ pg' = [pg EXCEPT ![w] = "TORN_DOWN"]
  /\ pc' = [pc EXCEPT ![w] = "done"]
  /\ UNCHANGED <<nprocs, launcher, args, joined, arrived, seeded, device,
                 ddp_ids, logger, trainerCalled, trainerReturned, failedAt>>
  /\ phases' = [phases EXCEPT ![w] = Append(@, "teardown")]
  /\ UNCHANGED jobVars

\* A worker raises or dies wherever it is (an unreachable endpoint, a
\* collective that times out, a trainer that throws, an external kill).
Crash(w) ==
  /\ pc[w] \in AlivePcs
  /\ failedAt' = [failedAt EXCEPT ![w] = pc[w]]
  /\ pc' = [pc EXCEPT ![w] = "failed"]
  /\ UNCHANGED <<nprocs, launcher, args, pg, joined, arrived, seeded, device,
                 ddp_ids, logger, trainerCalled, trainerReturned>>
  /\ UNCHANGED phases
  /\ UNCHANGED jobVars

\* mp.spawn joins the workers: a failed worker makes it terminate the
\* others and raise; otherwise it returns when all have exited.
LauncherDetect ==
  /\ launcher = "waiting"
  /\ \E w \in Workers : pc[w] = "failed"
  /\ launcher' = "terminating"
  /\ UNCHANGED <<nprocs, args, pc, pg, joined, arrived, seeded, device,
                 ddp_ids, logger, trainerCalled, trainerReturned, failedAt>>
  /\ UNCHANGED phases
  /\ UNCHANGED jobVars

Kill(w) ==
  /\ launcher = "terminating"
  /\ pc[w] \in AlivePcs
  /\ pc' = [pc EXCEPT ![w] = "killed"]
  /\ UNCHANGED <<nprocs, launcher, args, pg, joined, arrived, seeded, device,
                 ddp_ids, logger, trainerCalled, trainerReturned, failedAt>>
  /\ UNCHANGED phases
  /\ UNCHANGED jobVars

LauncherRaise ==
  /\ launcher = "terminating"
  /\ \A w \in Workers : pc[w] \notin AlivePcs
  /\ launcher' = "raised"
  /\ UNCHANGED <<nprocs, args, pc, pg, joined, arrived, seeded, device,
                 ddp_ids, logger, trainerCalled, trainerReturned, failedAt>>
  /\ UNCHANGED phases
  /\ UNCHANGED jobVars

\* mp.spawn is called with its default join=True: it returns only when
\* every process has exited, and normally only when none failed.
MayReturnWithoutJoin == TRUE
MayReturn == \A w \in Workers : pc[w] = "done"

LauncherReturn ==
  /\ launcher = "waiting"
  /\ MayReturn
  /\ launcher' = "returned"
  /\ UNCHANGED <<nprocs, args, pc, pg, joined, arrived, seeded, device,
                 ddp_ids, logger, trainerCalled, trainerReturned, failedAt>>
  /\ UNCHANGED phases
  /\ UNCHANGED jobVars

\* The teardown step of lines 69-71 run again by a worker whose group is
\* already destroyed. The step has no check of the group's state: it calls
\* dist.barrier, and a collective on a destroyed group raises.
TeardownAgain(w) ==
  /\ pc[w] = "done"
  /\ pg[w] = "TORN_DOWN"
  /\ failedAt' = [failedAt EXCEPT ![w] = "barrier3"]
  /\ pc' = [pc EXCEPT ![w] = "failed"]
  /\ UNCHANGED <<nprocs, launcher, args, pg, joined, arrived, seeded, device,
                 ddp_ids, logger, trainerCalled, trainerReturned>>
  /\ UNCHANGED phases
  /\ UNCHANGED jobVars

\* Line 69 passes device_ids to dist.barrier on the GLOO group of line 28.
\* torch documents device_ids as valid only for the NCCL backend: a build
\* either ignores it (the barrier then goes on as BarrierArrive(w, 3)) or
\* rejects the call with a RuntimeError, and the worker ends in error.
RejectDeviceIds(w) ==
  /\ pc[w] = "barrier3"
  /\ failedAt' = [failedAt EXCEPT ![w] = "barrier3"]
  /\ pc' = [pc EXCEPT ![w] = "failed"]
  /\ UNCHANGED <<nprocs, launcher, args, pg, joined, arrived, seeded, device,
                 ddp_ids, logger, trainerCalled, trainerReturned>>
  /\ UNCHANGED phases
  /\ UNCHANGED jobVars

\* One step of worker w's dist_init when nothing outside the code makes it
\* fail.
WorkerStep(w) ==
  \/ JoinRegister(w)
  \/ JoinReturn(w)
  \/ SeedAll(w)
  \/ \E k \in 1 .. 3 : BarrierArrive(w, k)
  \/ \E k \in 1 .. 3 : BarrierPass(w, k)
  \/ Bind(w)
  \/ TrainerCall(w)
  \/ TrainerReturn(w)
  \/ Destroy(w)
  \/ RejectDeviceIds(w)

\* The executor without crashes from outside: what the code does by itself.
LiveNext ==
  \/ \E n \in 0 .. MaxProcs : UpdateParameters(n)
  \/ \E a \in ArgBundles : Submit(a)
  \/ \E w \in Workers : JoinRegister(w)
  \/ \E w \in Workers : JoinReturn(w)
  \/ \E w \in Workers : SeedAll(w)
  \/ \E w \in Workers, k \in 1 .. 3 : BarrierArrive(w, k)
  \/ \E w \in Workers, k \in 1 .. 3 : BarrierPass(w, k)
  \/ \E w \in Workers : Bind(w)
  \/ \E w \in Workers : TrainerCall(w)
  \/ \E w \in Workers : TrainerReturn(w)
  \/ \E w \in Workers : Destroy(w)
  \/ \E w \in Workers : RejectDeviceIds(w)
  \/ LauncherDetect
  \/ \E w \in Workers : Kill(w)
  \/ LauncherRaise
  \/ LauncherReturn

ExecNext ==
  \/ \E n \in 0 .. MaxProcs : UpdateParameters(n)
  \/ \E a \in ArgBundles : Submit(a)
  \/ \E w \in Workers : JoinRegister(w)
  \/ \E w \in Workers : JoinReturn(w)
  \/ \E w \in Workers : SeedAll(w)
  \/ \E w \in Workers, k \in 1 .. 3 : BarrierArrive(w, k)
  \/ \E w \in Workers, k \in 1 .. 3 : BarrierPass(w, k)
  \/ \E w \in Workers : Bind(w)
  \/ \E w \in Workers : TrainerCall(w)
  \/ \E w \in Workers : TrainerReturn(w)
  \/ \E w \in Workers : Destroy(w)
  \/ \E w \in Workers : Crash(w)
  \/ LauncherDetect
  \/ \E w \in Workers : Kill(w)
  \/ LauncherRaise
  \/ LauncherReturn

\* ----------------------------------------------------------------- job
\* Largest epoch number saved or resumed from.
MaxEpoch == 1

Epochs == 0 .. MaxEpoch

\* start_at values: a negative one skips restoration.
StartAts == (0 - 1) .. MaxEpoch

\* JobMode
Modes == {"TRAIN", "RESUME", "EVALUATE"}

\* Opaque model and optimiser states (what state_dict() exports).
ModelStates == {"m0", "m1"}
OptStates == {"o0", "o1"}

\* (global_rank, local_rank) pairs the wrapper calls the job with.
RankPairs == {<<0, 0>>, <<1, 1>>}

\* JobConfig's field defaults, with the job type and starting epoch given.
JobConfig(job_type, start_at) ==
  [job_type |-> job_type, start_at |-> start_at, epochs |-> 25,
   checkpoint_name_prefix |-> "ckpt", checkpoint_path |-> "./checkpoint",
   console_logs_path |-> "./logs/console_logs",
   training_logs_path |-> "./logs/training_logs",
   save_every |-> 5, upon_finish |-> "None"]

Empty == [x \in {} |-> {}]

Ev(name, g, l, data) == [ev |-> name, g |-> g, l |-> l, data |-> data]

\* os.path.join(checkpoint_path, f'{checkpoint_name_prefix}_{epoch}.pt'),
\* as save_state builds it.
SavePathNextEpoch(cfg, epoch) ==
  <<cfg.checkpoint_path, cfg.checkpoint_name_prefix, epoch + 1, "pt">>
SavePath(cfg, epoch) ==
  <<cfg.checkpoint_path, cfg.checkpoint_name_prefix, epoch, "pt">>

\* The same path as restore_state builds it (filename, then join).
RestorePath(cfg, resume_at) ==
  <<cfg.checkpoint_path, cfg.checkpoint_name_prefix, resume_at, "pt">>

\* The checkpoint directory as a new job may find it: empty, or holding the
\* checkpoint an earlier run saved for epoch 0.
PriorFiles ==
  {Empty,
   [p \in {SavePath(JobConfig("TRAIN", 0), 0)} |->
      [stopped_at |-> 0, model |-> "m1", optimiser |-> "o1"]]}

\* A job as constructed and handed its artefacts: a live optimiser, an
\* optimiser loader, or both; the user subclass overrides train, evaluate
\* or both.
JobInit ==
  /\ \E t \in Modes, s \in StartAts : j_config = JobConfig(t, s)
  /\ \E o \in {<<{"o0"}, FALSE>>, <<{}, TRUE>>, <<{"o0"}, TRUE>>} :
        a_config = [model |-> "m0", optimiser |-> o[1],
                    optimiser_loader |-> o[2], test_set |-> "test_set"]
  /\ impl \in {{"train", "evaluate"}, {"train"}, {"evaluate"}}
  /\ files \in PriorFiles
  /\ files0 = files
  /\ calls = <<>>
  /\ outcome = "none"
  /\ op = <<"none", 0>>
  /\ lastSaved = Empty

\* The job of a run of the executor alone: the dataclass defaults.
JobIdle ==
  /\ j_config = JobConfig("TRAIN", 0)
  /\ a_config = [model |-> "m0", optimiser |-> {"o0"},
                 optimiser_loader |-> FALSE, test_set |-> "test_set"]
  /\ impl = {"train", "evaluate"}
  /\ files = Empty
  /\ files0 = Empty
  /\ calls = <<>>
  /\ outcome = "none"
  /\ op = <<"none", 0>>
  /\ lastSaved = Empty

\* save_state keeping only the latest checkpoint file.
save_state_rotating(cfg, acfg, fs, epoch) ==
  IF acfg.optimiser = {}
    THEN [files |-> fs, err |-> "AttributeError"]
    ELSE [files |-> [p \in {SavePath(cfg, epoch)} |->
                       [stopped_at |-> epoch,
                        model |-> acfg.model,
                        optimiser |-> CHOOSE o \in acfg.optimiser : TRUE]],
          err |-> "ok"]

\* save_state: building the checkpoint dict reads optimiser.state_dict(),
\* so a job without an optimiser raises before anything is written;
\* torch.save creates the file or replaces it.
save_state(cfg, acfg, fs, epoch) ==
  IF acfg.optimiser = {}
    THEN [files |-> fs, err |-> "AttributeError"]
    ELSE LET checkpoint == [stopped_at |-> epoch,
                            model |-> acfg.model,
                            optimiser |-> CHOOSE o \in acfg.optimiser : TRUE]
             path == SavePath(cfg, epoch)
         IN  [files |-> [p \in DOMAIN fs \cup {path} |->
                           IF p = path THEN checkpoint ELSE fs[p]],
              err |-> "ok"]

\* restore_state with a missing file taken as nothing to restore.
restore_state_lenient(cfg, acfg, fs, resume_at) ==
  LET path == RestorePath(cfg, resume_at)
  IN  IF path \notin DOMAIN fs
        THEN [j |-> cfg, a |-> acfg, err |-> "ok"]
        ELSE LET checkpoint == fs[path]
             IN  [j |-> [cfg EXCEPT !.start_at = checkpoint.stopped_at],
                  a |-> [acfg EXCEPT !.model = checkpoint.model,
                                     !.optimiser = {checkpoint.optimiser}],
                  err |-> "ok"]

\* restore_state: the file must exist (assert os.path.isfile); then
\* start_at, the model and the optimiser are loaded in this order, the last
\* raising on a job that has no optimiser.
restore_state(cfg, acfg, fs, resume_at) ==
  LET path == RestorePath(cfg, resume_at)
  IN  IF path \notin DOMAIN fs
        THEN [j |-> cfg, a |-> acfg, err |-> "AssertionError"]
        ELSE LET checkpoint == fs[path]
                 j1 == [cfg EXCEPT !.start_at = checkpoint.stopped_at]
                 a1 == [acfg EXCEPT !.model = checkpoint.model]
             IN  IF acfg.optimiser = {}
                   THEN [j |-> j1, a |-> a1, err |-> "AttributeError"]
                   ELSE [j |-> j1,
                         a |-> [a1 EXCEPT !.optimiser = {checkpoint.optimiser}],
                         err |-> "ok"]

\* The optimiser optimiser_loader(model) builds: a fresh one.
OptimiserLoader(model) == "o0"

\* Lines 229-231: restoration is for RESUME and EVALUATE, from start_at >= 0.
NeedsRestoreAnyStart(cfg) == cfg.job_type \in {"RESUME", "EVALUATE"}
NeedsRestoreAnyMode(cfg) == cfg.start_at >= 0
NeedsRestore(cfg) ==
  cfg.job_type \in {"RESUME", "EVALUATE"} /\ cfg.start_at >= 0

\* Lines 235-238: train for TRAIN and RESUME, evaluate otherwise.
ProcedureTrainOnly(cfg) == IF cfg.job_type = "TRAIN" THEN "train" ELSE "evaluate"
Procedure(cfg) ==
  IF cfg.job_type \in {"TRAIN", "RESUME"} THEN "train" ELSE "evaluate"

\* The base class's train and evaluate raise NotImplementedError (lines
\* 136-172); a procedure the subclass overrides runs.
InvokeSilently(proc) == "ok"
Invoke(proc) == IF proc \in impl THEN "ok" ELSE "NotImplementedError"

\* Lines 224-232 with the optimiser rebuilt after the restoration.
lifecycle_rebuild_last(cfg, acfg, fs, g, l) ==
  LET restoring == NeedsRestore(cfg)
      r == restore_state(cfg, acfg, fs, cfg.start_at)
      log1 == IF restoring
                THEN <<Ev("restore_state", cfg.start_at, l, "none")>>
                ELSE <<>>
      j1 == IF restoring THEN r.j ELSE cfg
      a1 == IF restoring THEN r.a ELSE acfg
  IN  [j |-> j1,
       a |-> IF acfg.optimiser_loader
               THEN [a1 EXCEPT !.optimiser = {OptimiserLoader(a1.model)}]
               ELSE a1,
       log |-> IF acfg.optimiser_loader
                 THEN Append(log1, Ev("optimiser_loader", g, l, a1.model))
                 ELSE log1,
       err |-> IF restoring THEN r.err ELSE "ok"]

\* Lines 224-232 of Job.__call__: the optimiser is rebuilt from the model
\* when a loader was given, then the state is restored for RESUME and
\* EVALUATE from start_at >= 0. An exception of restore_state propagates.
lifecycle(cfg, acfg, fs, g, l) ==
  LET a1 == IF acfg.optimiser_loader
              THEN [acfg EXCEPT !.optimiser = {OptimiserLoader(acfg.model)}]
              ELSE acfg
      log1 == IF acfg.optimiser_loader
                THEN <<Ev("optimiser_loader", g, l, acfg.model)>>
                ELSE <<>>
      restoring == NeedsRestore(cfg)
      r == restore_state(cfg, a1, fs, cfg.start_at)
  IN  [j |-> IF restoring THEN r.j ELSE cfg,
       a |-> IF restoring THEN r.a ELSE a1,
       log |-> IF restoring
                 THEN Append(log1, Ev("restore_state", cfg.start_at, l, "none"))
                 ELSE log1,
       err |-> IF restoring THEN r.err ELSE "ok"]

\* Job.__call__(global_rank, local_rank). When the restoration raised, the
\* user procedure is not reached.
Call(g, l) ==
  LET c == lifecycle(j_config, a_config, files, g, l)
      proc == Procedure(c.j)
  IN  /\ op' = <<"call", g>>
      /\ j_config' = c.j
      /\ a_config' = c.a
      /\ IF c.err # "ok"
           THEN /\ calls' = c.log
                /\ outcome' = c.err
           ELSE /\ calls' = Append(c.log,
                     Ev(proc, g, l, IF proc = "evaluate" THEN c.a.test_set ELSE "none"))
                /\ outcome' = Invoke(proc)
      /\ UNCHANGED <<impl, files, lastSaved, files0>>
      /\ UNCHANGED execVars

\* Job.save_state(epoch), called by the user procedure or the caller.
SaveState(epoch) ==
  LET r == save_state(j_config, a_config, files, epoch)
  IN  /\ op' = <<"save_state", epoch>>
      /\ files' = r.files
      /\ outcome' = r.err
      /\ lastSaved' =
           IF r.err = "ok"
             THEN [e \in DOMAIN lastSaved \cup {epoch} |->
                     IF e = epoch
                       THEN [model |-> a_config.model, optimiser |-> a_config.optimiser]
                       ELSE lastSaved[e]]
             ELSE lastSaved
      /\ UNCHANGED <<j_config, a_config, impl, calls, files0>>
      /\ UNCHANGED execVars

\* Job.restore_state(resume_at), called directly.
RestoreState(resume_at) ==
  LET r == restore_state(j_config, a_config, files, resume_at)
  IN  /\ op' = <<"restore_state", resume_at>>
      /\ j_config' = r.j
      /\ a_config' = r.a
      /\ outcome' = r.err
      /\ UNCHANGED <<impl, files, calls, lastSaved, files0>>
      /\ UNCHANGED execVars

\* The user's training changes the model and the state of the optimiser.
TrainStep(m, o) ==
  /\ a_config' = [a_config EXCEPT !.model = m,
                    !.optimiser = IF @ = {} THEN {} ELSE {o}]
  /\ a_config' # a_config
  /\ op' = <<"train_step", 0>>
  /\ outcome' = "ok"
  /\ UNCHANGED <<j_config, impl, files, calls, lastSaved, files0>>
  /\ UNCHANGED execVars

JobNext ==
  \/ \E rk \in RankPairs : Call(rk[1], rk[2])
  \/ \E e \in Epochs : SaveState(e)
  \/ \E e \in Epochs : RestoreState(e)
  \/ \E m \in ModelStates, o \in OptStates : TrainStep(m, o)

\* ------------------------------------------------------ specifications

InitExec == ExecInit /\ JobIdle

InitJob == ExecInit /\ JobInit

TeardownNext == ExecNext \/ \E w \in Workers : TeardownAgain(w)

\* The executor: launcher and workers.
SpecExec == InitExec /\ [][ExecNext]_vars

\* The executor with the teardown step run again on a torn-down worker.
SpecTeardown == InitExec /\ [][TeardownNext]_vars

\* The executor with no crash from outside, every worker scheduled fairly
\* (each is a process of its own) and the launcher waiting on them.
SpecLive ==
  /\ InitExec
  /\ [][LiveNext]_vars
  /\ \A w \in Procs : WF_vars(WorkerStep(w))
  /\ WF_vars(LauncherDetect \/ LauncherRaise \/ LauncherReturn)
  /\ \A w \in Procs : WF_vars(Kill(w))

\* The job lifecycle and its checkpoints.
SpecJob == InitJob /\ [][JobNext]_vars
\* --------------------------------------------------------------- claims
\* The checkpoint file of epoch e: {checkpoint_path}/{prefix}_{e}.pt
FileOfEpoch(e) ==
  <<j_config.checkpoint_path, j_config.checkpoint_name_prefix, e, "pt">>

\* The events of a lifecycle call that invoke a user procedure.
ProcEvents(log) == {i \in 1 .. Len(log) : log[i].ev \in {"train", "evaluate"}}
RestoreEvents(log) == {i \in 1 .. Len(log) : log[i].ev = "restore_state"}

\* a_config as the lifecycle call leaves it when nothing is restored: the
\* optimiser rebuilt when a loader is supplied, nothing else touched.
Rebuilt(a) == IF a.optimiser_loader THEN [a EXCEPT !.optimiser = {"o0"}] ELSE a

\* C1: in every interleaving, a worker that has begun device binding (or is
\* past the first barrier) finds every worker of the group joined and
\* arrived at the first barrier.
C1_NoBindingBeforeGroupComplete ==
  \A w \in Workers :
    (device[w] # {} \/ pc[w] = "bind") =>
      /\ joined = Workers
      /\ arrived[1] = Workers
      /\ \A v \in Workers : pg[v] # "UNINITIALIZED"

\* C1 witness: in a group of several workers, one has selected its device.
C1_Witness ==
  /\ nprocs >= 2
  /\ \E w \in Workers : device[w] # {} /\ ddp_ids[w] # {}

\* C2: a worker whose process group is destroyed finds every worker
\* returned from the trainer and arrived at the final barrier; no peer is
\* still inside its trainer call.
C2_NoTeardownWhilePeerTrains ==
  \A w \in Workers :
    pg[w] = "TORN_DOWN" =>
      /\ trainerReturned = Workers
      /\ arrived[3] = Workers
      /\ \A v \in Workers : pc[v] # "training"

\* C2 witness: in a group of several workers, one has destroyed its group
\* while a peer has not yet done so.
C2_Witness ==
  /\ nprocs >= 2
  /\ \E w, v \in Workers : pg[w] = "TORN_DOWN" /\ pg[v] = "JOINED"

\* C3 as claimed: once a worker has failed during join, the first barrier,
\* binding or the second barrier, no worker has invoked the trainer.
C3_NoTrainerAfterPreTrainingFailure ==
  (\E w \in Workers : failedAt[w] \in PreTrainingPcs) => trainerCalled = {}

\* C3 amended: once a worker has died without having entered the second
\* barrier, no worker has invoked the trainer (a worker that dies inside the
\* second barrier, after entering it, does not hold its peers back).
C3_NoTrainerAfterFailureBeforeSecondBarrier ==
  (\E w \in Workers : pc[w] \in {"failed", "killed"} /\ w \notin arrived[2])
    => trainerCalled = {}

\* C3 witness: a worker failed while binding and a peer waits in the second
\* barrier.
C3_Witness ==
  \E w, v \in Workers :
    /\ pc[w] = "failed" /\ failedAt[w] = "bind" /\ w \notin arrived[2]
    /\ pc[v] = "in_barrier2"

\* C4: a lifecycle call under RESUME with start_at >= 0 and no checkpoint
\* file for start_at fails on the file check, does not invoke train, and
\* leaves start_at, the model and the optimiser as they were before the
\* restore attempt.
C4_MissingCheckpointFails ==
  [][(/\ op'[1] = "call"
      /\ j_config.job_type = "RESUME"
      /\ j_config.start_at >= 0
      /\ FileOfEpoch(j_config.start_at) \notin DOMAIN files)
     => (/\ outcome' = "AssertionError"
         /\ ProcEvents(calls') = {}
         /\ j_config' = j_config
         /\ a_config' = Rebuilt(a_config)
         /\ files' = files)]_vars

\* C4 witness: a RESUME call has failed on the file check, on a file system
\* that holds the checkpoint of another epoch.
C4_Witness ==
  /\ op[1] = "call"
  /\ outcome = "AssertionError"
  /\ j_config.job_type = "RESUME"
  /\ j_config.start_at >= 0
  /\ FileOfEpoch(j_config.start_at) \notin DOMAIN files
  /\ DOMAIN files # {}

\* C5: a lifecycle call under RESUME or EVALUATE with start_at < 0 calls no
\* restore, changes neither start_at nor the model nor any file, and invokes
\* train under RESUME, evaluate under EVALUATE.
C5_NegativeStartSkipsRestore ==
  [][(/\ op'[1] = "call"
      /\ j_config.job_type \in {"RESUME", "EVALUATE"}
      /\ j_config.start_at < 0)
     => (/\ RestoreEvents(calls') = {}
         /\ j_config' = j_config
         /\ a_config' = Rebuilt(a_config)
         /\ files' = files
         /\ calls' # <<>>
         /\ calls'[Len(calls')].ev =
              (IF j_config.job_type = "RESUME" THEN "train" ELSE "evaluate"))]_vars

\* C5 witness: an EVALUATE call with a negative start_at has invoked
\* evaluate while checkpoint files exist.
C5_Witness ==
  /\ op[1] = "call"
  /\ j_config.job_type = "EVALUATE"
  /\ j_config.start_at < 0
  /\ calls # <<>>
  /\ calls[Len(calls)].ev = "evaluate"
  /\ DOMAIN files # {}

\* C6: a lifecycle call under TRAIN, whatever start_at is and whether or not
\* its checkpoint file exists, restores nothing and invokes train directly.
C6_TrainNeverRestores ==
  [][(op'[1] = "call" /\ j_config.job_type = "TRAIN")
     => (/\ RestoreEvents(calls') = {}
         /\ j_config' = j_config
         /\ a_config' = Rebuilt(a_config)
         /\ files' = files
         /\ calls' # <<>>
         /\ ProcEvents(calls') = {Len(calls')}
         /\ calls'[Len(calls')].ev = "train")]_vars

\* C6 witness: a TRAIN call has invoked train although the checkpoint file
\* of start_at exists and holds another model state.
C6_Witness ==
  /\ op[1] = "call"
  /\ j_config.job_type = "TRAIN"
  /\ j_config.start_at >= 0
  /\ FileOfEpoch(j_config.start_at) \in DOMAIN files
  /\ files[FileOfEpoch(j_config.start_at)].model # a_config.model
  /\ calls # <<>>
  /\ calls[Len(calls)].ev = "train"

\* C7: a successful lifecycle call has invoked exactly one user procedure,
\* once, after every restoration: evaluate with the test set under EVALUATE,
\* train under TRAIN and RESUME.
C7_OneProcedurePerCall ==
  (op[1] = "call" /\ outcome = "ok") =>
    /\ ProcEvents(calls) = {Len(calls)}
    /\ \A i \in RestoreEvents(calls) : i < Len(calls)
    /\ IF j_config.job_type = "EVALUATE"
         THEN /\ calls[Len(calls)].ev = "evaluate"
              /\ calls[Len(calls)].data = a_config.test_set
         ELSE calls[Len(calls)].ev = "train"
    /\ calls[Len(calls)].g = op[2]

\* C7 witness: a successful RESUME call has restored and then trained.
C7_Witness ==
  /\ op[1] = "call"
  /\ outcome = "ok"
  /\ j_config.job_type = "RESUME"
  /\ RestoreEvents(calls) # {}
  /\ calls[Len(calls)].ev = "train"

\* The epoch the latest operation restored from, if it restored.
RestoredEpoch ==
  IF op[1] = "restore_state" THEN {op[2]}
  ELSE IF op[1] = "call" THEN {calls[i].g : i \in RestoreEvents(calls)}
  ELSE {}

\* C8: restoring epoch E after save_state(E) succeeds, sets start_at to E
\* and leaves the model and the optimiser holding the states exported by
\* the latest save of E, whatever was saved or restored for other epochs.
C8_CheckpointRoundTrip ==
  \A e \in RestoredEpoch :
    e \in DOMAIN lastSaved =>
      /\ outcome \in {"ok", "NotImplementedError"}
      /\ outcome = "NotImplementedError" => op[1] = "call"
      /\ j_config.start_at = e
      /\ a_config.model = lastSaved[e].model
      /\ a_config.optimiser = lastSaved[e].optimiser

\* C8 witness: epoch 0 has been restored while epoch 1 holds a later save
\* of other states.
C8_Witness ==
  /\ op = <<"restore_state", 0>>
  /\ outcome = "ok"
  /\ DOMAIN lastSaved = {0, 1}
  /\ lastSaved[1].model # lastSaved[0].model
  /\ lastSaved[1].optimiser # lastSaved[0].optimiser
  /\ a_config.model = lastSaved[0].model

\* C10 as claimed: a worker whose group is destroyed stays as it is,
\* without error, when the teardown step is performed again.
C10_SecondTeardownIsNoOp ==
  \A w \in Procs : pg[w] = "TORN_DOWN" => (pc[w] = "done" /\ failedAt[w] = "none")

\* The order of dist_init's phases as the code has them.
PhaseOrder ==
  <<"join", "seed", "barrier", "bind", "barrier", "trainer", "barrier", "teardown">>

\* The order as claimed: seeding first.
ClaimedPhaseOrder ==
  <<"seed", "join", "barrier", "bind", "barrier", "trainer", "barrier", "teardown">>

IsPrefix(a, b) == Len(a) <= Len(b) /\ \A i \in 1 .. Len(a) : a[i] = b[i]

\* C11 as claimed: every worker goes through seed, join, barrier, binding,
\* barrier, trainer, barrier, teardown in this order.
C11_SeedThenJoinOrder ==
  \A w \in Workers : IsPrefix(phases[w], ClaimedPhaseOrder)

\* C11 amended: every worker goes through join, seed, barrier, binding,
\* barrier, trainer, barrier, teardown in this order (the join comes before
\* the seeding), and a worker that finished has passed exactly three barriers.
C11_JoinThenSeedOrder ==
  \A w \in Workers :
    /\ IsPrefix(phases[w], PhaseOrder)
    /\ pc[w] = "done" =>
         /\ phases[w] = PhaseOrder
         /\ Cardinality({i \in 1 .. Len(phases[w]) : phases[w][i] = "barrier"}) = 3

\* C11 witness: in a group of several workers one has gone through all the
\* phases while a peer is still inside the final barrier.
C11_Witness ==
  /\ nprocs >= 2
  /\ \E w, v \in Workers :
       /\ pc[w] = "done" /\ phases[w] = PhaseOrder
       /\ pc[v] = "in_barrier3"

\* C12 as claimed: when a required key is missing from the bundle given to
\* submit, no worker joins the process group or enters a barrier, and none
\* is blocked waiting for a peer.
C12_MissingKeyFoundBeforeSpawn ==
  (launcher # "idle" /\ ~(RequiredKeys \subseteq args.keys) /\ launcher # "assert_failed")
    => /\ joined = {}
       /\ \A k \in 1 .. 3 : arrived[k] = {}
       /\ \A w \in Workers : pc[w] \notin {"joining", "in_barrier1", "in_barrier2", "in_barrier3"}

\* C13: submit has ended (returned or raised) only when every worker process
\* has exited; it has returned normally only if every worker ran dist_init
\* to its end, and never when a worker has failed.
C13_SubmitWaitsAndReportsFailure ==
  /\ launcher \in {"returned", "raised"} => \A w \in Workers : pc[w] \notin AlivePcs
  /\ launcher = "returned" => \A w \in Workers : pc[w] = "done"
  /\ (\E w \in Workers : pc[w] \in {"failed", "killed"}) => launcher # "returned"

\* C13 witness: submit has raised after one worker failed and the launcher
\* terminated a peer.
C13_Witness ==
  /\ launcher = "raised"
  /\ \E w, v \in Workers : pc[w] = "failed" /\ pc[v] = "killed"

\* C15 as claimed: with a complete bundle and no crash from outside, under
\* fair scheduling every worker eventually destroys its process group.
C15_EveryWorkerTearsDown ==
  (launcher = "waiting" /\ RequiredKeys \subseteq args.keys)
    ~> (\A w \in Workers : pg[w] = "TORN_DOWN")

\* C16: every worker that has seeded used the literal 1640, and a worker
\* that has begun binding or called the trainer has seeded before.
C16_SameSeedBeforeStochasticWork ==
  /\ \A w \in Workers : seeded[w] \subseteq {Seed}
  /\ \A w, v \in Workers : (seeded[w] # {} /\ seeded[v] # {}) => seeded[w] = seeded[v]
  /\ \A w \in Workers :
       (pc[w] = "bind" \/ device[w] # {} \/ ddp_ids[w] # {} \/ w \in trainerCalled)
         => seeded[w] # {}

\* C16 witness: two workers have seeded and one of them has wrapped its model.
C16_Witness ==
  \E w, v \in Workers :
    w # v /\ seeded[w] # {} /\ seeded[v] # {} /\ ddp_ids[w] # {}

\* C20 as claimed: the device a worker selected is the one it gave to
\* DistributedDataParallel, and no two workers selected the same device.
C20_OneDevicePerWorker ==
  /\ \A w \in Workers : ddp_ids[w] # {} => ddp_ids[w] = device[w]
  /\ \A w, v \in Workers :
       (w # v /\ device[w] # {} /\ device[v] # {}) => device[w] # device[v]

\* C14 as claimed: a lifecycle call on a job whose subclass does not supply
\* the procedure its mode needs fails with the unimplemented-procedure
\* error (NotImplementedError).
C14_MissingProcedureRaisesNotImplemented ==
  (op[1] = "call" /\ Procedure(j_config) \notin impl)
    => outcome = "NotImplementedError"

\* C14 amended: such a call never ends normally; it fails with
\* NotImplementedError when it reaches the procedure, and otherwise with the
\* error of the restoration that raised before the procedure was reached.
C14_MissingProcedureNeverSilent ==
  (op[1] = "call" /\ Procedure(j_config) \notin impl)
    => /\ outcome # "ok"
       /\ ProcEvents(calls) # {} => outcome = "NotImplementedError"
       /\ ProcEvents(calls) = {} =>
            /\ RestoreEvents(calls) # {}
            /\ outcome \in {"AssertionError", "AttributeError"}

\* C14 witness: a call that restored a checkpoint and then reached the
\* procedure the subclass does not supply.
C14_Witness ==
  /\ op[1] = "call"
  /\ Procedure(j_config) \notin impl
  /\ RestoreEvents(calls) # {}
  /\ outcome = "NotImplementedError"

\* C17 as claimed: no operation changes a JobConfig field other than
\* start_at, and start_at changes only in a restoration that succeeds, to
\* the stopped_at stored in the checkpoint restored.
C17_ConfigChangesOnlyBySuccessfulRestore ==
  [][/\ [j_config' EXCEPT !.start_at = j_config.start_at] = j_config
     /\ j_config'.start_at # j_config.start_at =>
          \/ /\ op'[1] = "restore_state"
             /\ outcome' = "ok"
             /\ FileOfEpoch(op'[2]) \in DOMAIN files
             /\ j_config'.start_at = files[FileOfEpoch(op'[2])].stopped_at
          \/ /\ op'[1] = "call"
             /\ RestoreEvents(calls') # {}
             /\ outcome' \in {"ok", "NotImplementedError"}
             /\ FileOfEpoch(j_config.start_at) \in DOMAIN files
             /\ j_config'.start_at = files[FileOfEpoch(j_config.start_at)].stopped_at]_vars

\* The epochs that have a checkpoint file in fs.
EpochsOf(fs) == {e \in Epochs : FileOfEpoch(e) \in DOMAIN fs}

\* C18: save_state(E) creates or replaces the file of epoch E only and
\* leaves every other file as it was, no other operation touches a file,
\* and the epochs with a file are those found at construction and those
\* saved since.
C18_OneFilePerEpoch ==
  /\ [](/\ DOMAIN files = {FileOfEpoch(e) : e \in EpochsOf(files)}
        /\ EpochsOf(files) = EpochsOf(files0) \cup DOMAIN lastSaved)
  /\ [][/\ op'[1] = "save_state" =>
             /\ \A q \in (DOMAIN files \cup DOMAIN files') \ {FileOfEpoch(op'[2])} :
                  /\ q \in DOMAIN files
                  /\ q \in DOMAIN files'
                  /\ files'[q] = files[q]
             /\ outcome' = "ok" =>
                  /\ FileOfEpoch(op'[2]) \in DOMAIN files'
                  /\ files'[FileOfEpoch(op'[2])].stopped_at = op'[2]
             /\ outcome' # "ok" => files' = files
        /\ op'[1] # "save_state" => files' = files]_vars

\* C18 witness: a save has replaced the file found for epoch 0 while the
\* file saved for epoch 1 is still there.
C18_Witness ==
  /\ op = <<"save_state", 0>>
  /\ outcome = "ok"
  /\ FileOfEpoch(0) \in DOMAIN files0
  /\ files[FileOfEpoch(0)] # files0[FileOfEpoch(0)]
  /\ FileOfEpoch(1) \in DOMAIN files

\* C19: a lifecycle call on a job with an optimiser loader invokes the
\* loader exactly once, with the model, before anything else, and after a
\* restoration that succeeded the optimiser holds the state stored in the
\* checkpoint.
C19_OptimiserBuiltOnceBeforeRestore ==
  [][(op'[1] = "call" /\ a_config.optimiser_loader) =>
       /\ Cardinality({i \in 1 .. Len(calls') : calls'[i].ev = "optimiser_loader"}) = 1
       /\ calls'[1].ev = "optimiser_loader"
       /\ calls'[1].data = a_config.model
       /\ (RestoreEvents(calls') # {} /\ outcome' \in {"ok", "NotImplementedError"}) =>
            a_config'.optimiser = {files[FileOfEpoch(j_config.start_at)].optimiser}]_vars

\* C19 witness: a call has rebuilt the optimiser, restored a checkpoint
\* into it and run the user procedure, which sees the restored state.
C19_Witness ==
  /\ op[1] = "call"
  /\ a_config.optimiser_loader
  /\ outcome = "ok"
  /\ Len(calls) = 3
  /\ calls[1].ev = "optimiser_loader"
  /\ calls[2].ev = "restore_state"
  /\ a_config.optimiser = {"o1"}

====
